---- MODULE Spec2Model ----
(***************************************************************************)
(* A model of butch_filename_substring_remover: the planner                *)
(* (collect_rename_operations), the executor loop and the run lifecycle of *)
(* rename_files_and_dirs, over a small filesystem tree.                    *)
(*                                                                         *)
(* Names are sequences of one-character strings.  A path is the sequence   *)
(* of names below root_dir (root_dir itself is the empty path).  The       *)
(* filesystem is a table of entries; an entry keeps its identity when it   *)
(* is renamed, its path is derived from the parent links.                  *)
(***************************************************************************)
EXTENDS Integers, Sequences, FiniteSets, TLC

VARIABLES
    fs,             \* the filesystem below root_dir: entry id -> entry
    fs0,            \* the filesystem as it was when the run started
    to_remove,      \* the substrings, in the iteration order of the set
    dry_run, skip_confirm, no_undo,     \* arguments of rename_files_and_dirs
    extensions,     \* the extension allow-list (NoExtensions: None)
    pc,             \* lifecycle position of rename_files_and_dirs
    result,         \* "running", "returned" or "raised"
    walk,           \* os.walk(topdown=False): stack of frames
    dirpath,        \* the directory the planner is processing
    existing_items, \* the planner's view of the names in dirpath
    filenames,      \* files of dirpath not yet processed
    dirnames,       \* subdirectories of dirpath not yet processed
    operations,     \* the plan
    errors,         \* planning errors
    i,              \* index of the next operation of the executor loop
    successful_ops, \* the SuccessLog
    rename_errors,  \* execution errors
    undo,           \* generate_undo_script: "none", "written" or "failed"
    undo_script,    \* the commands of the undo script that was written
    error_ctx,      \* history: for each planning error, the directory it
                    \* was found in and the length of the plan at that time
    attempted,      \* history: for each os.rename call of the loop, the
                    \* operation, its outcome and the entry at its target
    answer,         \* the line input() returned to ask_confirmation
    root_directory, \* the root_directory argument of rename_directory
    home,           \* Path.home()
    root_is_dir,    \* os.path.isdir(root_directory)
    root_writable,  \* os.access(root_directory, os.W_OK)
    exception,      \* the exception that left rename_directory, or "none"
    unlisted,       \* history: the directories a listing call failed on
    s_in,           \* the argument s of a call of remove_substrings
    s_out           \* what that call returned

vars == <<fs, fs0, to_remove, dry_run, skip_confirm, no_undo, extensions, pc,
          result, walk, dirpath, existing_items, filenames, dirnames,
          operations, errors, i, successful_ops, rename_errors, undo,
          undo_script, error_ctx, attempted, answer, root_directory, home,
          root_is_dir, root_writable, exception, unlisted, s_in, s_out>>

(***************************************************************************)
(* Bounds and the input universe                                           *)
(***************************************************************************)
\* The number of entries below root_dir at the start of a run.
MaxNodes == 2

\* The names an entry may have at the start of a run.
NameList ==
    << <<"x">>,
       <<"x", "a", "b">>,
       <<"x", "a", "a", "b", "b">>,
       <<"x", "A", "B">>,
       <<"a", "b">>,
       <<"a", "b", ".", "a", "b">>,
       <<"x", "a", "b", ".", "t">> >>

Names == {NameList[k] : k \in 1..Len(NameList)}

NameIndex(n) == CHOOSE k \in 1..Len(NameList) : NameList[k] = n

\* The substring sets of a run, each in one iteration order.
ToRemoveChoices == { << <<"a", "b">> >> }

NoExtensions == <<>>

\* The allow-lists of a run: none, or --ext .t
ExtensionChoices == {NoExtensions, << <<".", "t">> >>}

Kinds == {"file", "dir"}

Missing == MaxNodes + 1

(***************************************************************************)
(* utils.remove_substrings                                                 *)
(***************************************************************************)
\* Variant: the characters are compared as they are.
LowerChar_as_is(c) == c

\* str.lower() on one character (re.IGNORECASE compares case-folded text).
LowerChar(c) ==
    CASE c = "A" -> "a"
      [] c = "B" -> "b"
      [] c = "X" -> "x"
      [] c = "Y" -> "y"
      [] c = "E" -> "e"
      [] c = "S" -> "s"
      [] OTHER -> c

\* Whether the pattern matches s at position k, ignoring case.
MatchAt(s, pat, k) ==
    /\ k + Len(pat) - 1 <= Len(s)
    /\ \A j \in 1..Len(pat) : LowerChar(s[k + j - 1]) = LowerChar(pat[j])

\* re.sub(re.escape(pat), '', s, flags=re.IGNORECASE) for a non-empty pat:
\* a left-to-right scan that deletes each leftmost non-overlapping match.
RECURSIVE ReSubFrom(_, _, _)
ReSubFrom(s, pat, k) ==
    IF k > Len(s) THEN <<>>
    ELSE IF MatchAt(s, pat, k) THEN ReSubFrom(s, pat, k + Len(pat))
    ELSE <<s[k]>> \o ReSubFrom(s, pat, k + 1)

re_sub(pat, s) == ReSubFrom(s, pat, 1)

\* The loop of remove_substrings from the k-th substring on.
RECURSIVE RemoveFrom(_, _, _)
RemoveFrom(s, subs, k) ==
    IF k > Len(subs) THEN s
    ELSE IF subs[k] = <<>> THEN RemoveFrom(s, subs, k + 1)
    ELSE RemoveFrom(re_sub(subs[k], s), subs, k + 1)

remove_substrings(s, subs) == RemoveFrom(s, subs, 1)

(***************************************************************************)
(* rename.is_valid_filename                                                *)
(***************************************************************************)
IsSpace(c) == c = " "

\* str.strip(): leading and trailing whitespace removed.
RECURSIVE LStrip(_)
LStrip(s) ==
    IF s # <<>> /\ IsSpace(Head(s)) THEN LStrip(Tail(s)) ELSE s

RECURSIVE RStrip(_)
RStrip(s) ==
    IF s # <<>> /\ IsSpace(s[Len(s)]) THEN RStrip(SubSeq(s, 1, Len(s) - 1))
    ELSE s

Strip(s) == RStrip(LStrip(s))

\* str.replace(c, ""): every occurrence of the character removed.
ReplaceChar(s, c) == SelectSeq(s, LAMBDA ch : ch # c)

\* Variant: the tests for ".", ".." and dots-and-spaces names are missing.
is_valid_filename_no_dot_check(name) ==
    ~(name = <<>> \/ Strip(name) = <<>>)

is_valid_filename(name) ==
    IF name = <<>> \/ Strip(name) = <<>> THEN FALSE
    ELSE IF name \in {<<".">>, <<".", ".">>} THEN FALSE
    ELSE IF ReplaceChar(ReplaceChar(name, "."), " ") = <<>> THEN FALSE
    ELSE TRUE

(***************************************************************************)
(* utils.should_process_file: with no allow-list every file is processed,  *)
(* otherwise only the files whose name ends with a listed extension.       *)
(***************************************************************************)
EndsWith(s, suffix) ==
    /\ Len(suffix) <= Len(s)
    /\ SubSeq(s, Len(s) - Len(suffix) + 1, Len(s)) = suffix

should_process_file(filename, exts) ==
    \/ exts = NoExtensions
    \/ \E k \in 1..Len(exts) : EndsWith(filename, exts[k])

(***************************************************************************)
(* The filesystem                                                          *)
(***************************************************************************)
Ids == 1..MaxNodes

\* An unused slot of the table.
Dead == [parent |-> 0, name |-> NameList[1], kind |-> "file", alive |-> FALSE]

IsDirId(f, n) == n = 0 \/ (n \in DOMAIN f /\ f[n].alive /\ f[n].kind = "dir")

Children(f, p) == {n \in DOMAIN f : f[n].alive /\ f[n].parent = p}

\* The entry called name in directory p, or Missing.
Lookup(f, p, name) ==
    LET hits == {n \in Children(f, p) : f[n].name = name}
    IN IF hits = {} THEN Missing ELSE CHOOSE n \in hits : TRUE

\* The entry a path names, or Missing: every component but the last must be
\* a directory.
RECURSIVE ResolveFrom(_, _, _, _)
ResolveFrom(f, cur, path, k) ==
    IF k > Len(path) THEN cur
    ELSE IF ~IsDirId(f, cur) THEN Missing
    ELSE LET n == Lookup(f, cur, path[k])
         IN IF n = Missing THEN Missing ELSE ResolveFrom(f, n, path, k + 1)

Resolve(f, path) == ResolveFrom(f, 0, path, 1)

\* The path of an entry (the root is the empty path).
RECURSIVE PathOf(_, _)
PathOf(f, n) ==
    IF n = 0 THEN <<>> ELSE Append(PathOf(f, f[n].parent), f[n].name)

\* os.listdir(path), and the two lists os.walk yields for it.
listdir(f, path) == {f[n].name : n \in Children(f, Resolve(f, path))}

FileNames(f, path) ==
    {f[n].name :
        n \in {c \in Children(f, Resolve(f, path)) : f[c].kind = "file"}}

DirNames(f, path) ==
    {f[n].name :
        n \in {c \in Children(f, Resolve(f, path)) : f[c].kind = "dir"}}

os_path_join(path, name) == Append(path, name)

os_path_dirname(path) == SubSeq(path, 1, Len(path) - 1)

os_path_basename(path) == path[Len(path)]

\* The outcomes of os.rename(old, new).  It fails when old is missing; it
\* replaces an existing new when both are files or new is an empty
\* directory and old a directory (POSIX), and fails on any other existing
\* new; any call may fail with an OSError of the environment (permission,
\* I/O, a platform that refuses an existing target).
RenameFailed(f) == [ok |-> FALSE, fs |-> f]

Replaceable(f, src, dst) ==
    \/ f[src].kind = "file" /\ f[dst].kind = "file"
    \/ f[src].kind = "dir" /\ f[dst].kind = "dir" /\ Children(f, dst) = {}

os_rename(f, old, new) ==
    LET src == Resolve(f, old)
        dir == Resolve(f, os_path_dirname(new))
        dst == Resolve(f, new)
        moved == [f EXCEPT ![src].parent = dir,
                           ![src].name = os_path_basename(new)]
    IN IF old = <<>> \/ new = <<>> \/ src = Missing \/ ~IsDirId(f, dir)
       THEN {RenameFailed(f)}
       ELSE IF dst = Missing
       THEN {[ok |-> TRUE, fs |-> moved], RenameFailed(f)}
       ELSE IF dst = src
       THEN {[ok |-> TRUE, fs |-> f], RenameFailed(f)}
       ELSE IF Replaceable(f, src, dst)
       THEN {[ok |-> TRUE, fs |-> [moved EXCEPT ![dst].alive = FALSE]],
             RenameFailed(f)}
       ELSE {RenameFailed(f)}

(***************************************************************************)
(* The trees a run may start from.  Entries are numbered level by level,   *)
(* the entries of one directory by the position of their name in NameList, *)
(* so that every tree is enumerated once.                                  *)
(***************************************************************************)
NodeChoices(t, k) ==
    {Dead} \cup
    {r \in [parent : 0..(k - 1), name : Names, kind : Kinds, alive : {TRUE}] :
        /\ IsDirId(t, r.parent)
        /\ k > 1 =>
            /\ t[k - 1].alive
            /\ \/ r.parent > t[k - 1].parent
               \/ /\ r.parent = t[k - 1].parent
                  /\ NameIndex(r.name) > NameIndex(t[k - 1].name)}

RECURSIVE TreesOf(_)
TreesOf(k) ==
    IF k = 0 THEN {<<>>}
    ELSE UNION {{Append(t, r) : r \in NodeChoices(t, k)} : t \in TreesOf(k - 1)}

Trees == TreesOf(MaxNodes)

(***************************************************************************)
(* rename_files_and_dirs is entered: the guard of rename_directory has     *)
(* passed, nothing is planned yet.                                         *)
(***************************************************************************)
RootFrame(f) == [path |-> <<>>, todo |-> DirNames(f, <<>>), yielded |-> FALSE]

\* No line has been read from the user.
NoAnswer == <<"none">>

\* Nothing is planned, nothing is renamed, nothing has been asked.
NothingDone ==
    /\ fs0 = fs
    /\ result = "running"
    /\ dirpath = <<>>
    /\ existing_items = {}
    /\ filenames = {}
    /\ dirnames = {}
    /\ operations = <<>>
    /\ errors = <<>>
    /\ i = 1
    /\ successful_ops = <<>>
    /\ rename_errors = <<>>
    /\ undo = "none"
    /\ undo_script = <<>>
    /\ error_ctx = <<>>
    /\ attempted = <<>>
    /\ answer = NoAnswer
    /\ exception = "none"
    /\ unlisted = {}

\* A root directory the guard of rename_directory lets through.
GuardPassed ==
    /\ root_directory = <<"d">>
    /\ home = <<"home", "u">>
    /\ root_is_dir = TRUE
    /\ root_writable = TRUE

\* No call of remove_substrings is followed on its own.
NoCall == s_in = <<>> /\ s_out = <<>>

Init ==
    /\ fs \in Trees
    /\ to_remove \in ToRemoveChoices
    /\ dry_run \in BOOLEAN
    /\ skip_confirm \in BOOLEAN
    /\ no_undo \in BOOLEAN
    /\ extensions \in ExtensionChoices
    /\ pc = "scan"
    /\ walk = <<RootFrame(fs)>>
    /\ NothingDone
    /\ GuardPassed
    /\ NoCall

(***************************************************************************)
(* collect_rename_operations                                               *)
(***************************************************************************)
\* Variant: os.walk with its default, topdown=True.
topdown_true == TRUE

\* The topdown argument of os.walk.
topdown == FALSE

Top == walk[Len(walk)]

Walking == pc = "scan" /\ filenames = {} /\ dirnames = {} /\ walk # <<>>

\* os.walk descends into a subdirectory of the directory on top of its stack.
WalkDescend ==
    /\ Walking
    /\ Top.todo # {}
    /\ topdown => Top.yielded
    /\ \E d \in Top.todo :
        LET rest == Top.todo \ {d}
            sub == os_path_join(Top.path, d)
            below == IF Top.yielded /\ rest = {}
                     THEN SubSeq(walk, 1, Len(walk) - 1)
                     ELSE [walk EXCEPT ![Len(walk)].todo = rest]
        IN walk' = Append(below, [path |-> sub, todo |-> DirNames(fs, sub),
                                  yielded |-> FALSE])
    /\ UNCHANGED <<fs, fs0, to_remove, dry_run, skip_confirm, no_undo,
                   extensions, pc, result, dirpath, existing_items, filenames,
                   dirnames, operations, errors, i, successful_ops,
                   rename_errors, undo, undo_script, error_ctx, attempted,
                   answer, root_directory, home, root_is_dir, root_writable,
                   exception, unlisted, s_in, s_out>>

\* os.walk yields a directory, and the loop body snapshots its names.
WalkYield ==
    /\ Walking
    /\ ~Top.yielded
    /\ topdown \/ Top.todo = {}
    /\ walk' = IF Top.todo = {} THEN SubSeq(walk, 1, Len(walk) - 1)
               ELSE [walk EXCEPT ![Len(walk)].yielded = TRUE]
    /\ dirpath' = Top.path
    /\ existing_items' = listdir(fs, Top.path)
    /\ filenames' = FileNames(fs, Top.path)
    /\ dirnames' = DirNames(fs, Top.path)
    /\ UNCHANGED <<fs, fs0, to_remove, dry_run, skip_confirm, no_undo,
                   extensions, pc, result, operations, errors, i,
                   successful_ops, rename_errors, undo, undo_script, error_ctx,
                   attempted, answer, root_directory, home, root_is_dir,
                   root_writable, exception, unlisted, s_in, s_out>>

\* Variant: the name-conflict test is missing.
NameConflict_never(new_name, name, existing) == FALSE

NameConflict(new_name, name, existing) ==
    new_name \in existing /\ new_name # name

\* Variant: the new name is not added to the view.
UpdateExisting_discard_only(existing, name, new_name) ==
    existing \ {name}

UpdateExisting(existing, name, new_name) ==
    (existing \ {name}) \cup {new_name}

\* Variant: the source of an operation is the directory being listed.
Operation_on_dirpath(dir, name, new_name) ==
    [old_path |-> dir,
     new_path |-> os_path_join(os_path_dirname(dir), new_name),
     old_name |-> name,
     new_name |-> new_name]

Operation(dir, name, new_name) ==
    [old_path |-> os_path_join(dir, name),
     new_path |-> os_path_join(dir, new_name),
     old_name |-> name,
     new_name |-> new_name]

PlanningError(msg, name, new_name) ==
    [msg |-> msg, name |-> name, new_name |-> new_name]

\* Variant: the loop body without its "if new_name != filename" test.
PlanEntry_without_change_test(name, invalid_msg) ==
    LET new_name == remove_substrings(name, to_remove)
    IN IF ~is_valid_filename(new_name)
       THEN [operations |-> operations,
             errors |-> Append(errors,
                               PlanningError(invalid_msg, name, new_name)),
             existing_items |-> existing_items]
       ELSE IF NameConflict(new_name, name, existing_items)
       THEN [operations |-> operations,
             errors |-> Append(errors,
                               PlanningError("Name conflict", name, new_name)),
             existing_items |-> existing_items]
       ELSE [operations |-> Append(operations,
                                   Operation(dirpath, name, new_name)),
             errors |-> errors,
             existing_items |-> UpdateExisting(existing_items, name, new_name)]

\* The body of the two loops over the entries of a directory: what one
\* entry adds to the plan, to the errors and to the view of the names.
PlanEntry(name, invalid_msg) ==
    LET new_name == remove_substrings(name, to_remove)
        same == [operations |-> operations, errors |-> errors,
                 existing_items |-> existing_items]
    IN IF new_name = name THEN same
       ELSE IF ~is_valid_filename(new_name)
       THEN [same EXCEPT !.errors =
                Append(errors, PlanningError(invalid_msg, name, new_name))]
       ELSE IF NameConflict(new_name, name, existing_items)
       THEN [same EXCEPT !.errors =
                Append(errors, PlanningError("Name conflict", name, new_name))]
       ELSE [operations |-> Append(operations,
                                   Operation(dirpath, name, new_name)),
             errors |-> errors,
             existing_items |-> UpdateExisting(existing_items, name, new_name)]

\* History of the planning errors: where each one was found.
NoteErrors(errs) ==
    IF Len(errs) > Len(errors)
    THEN Append(error_ctx, [dir |-> dirpath, planned |-> Len(operations)])
    ELSE error_ctx

\* Variant: the loop over the files without its should_process_file test.
PlanFile_without_filter ==
    /\ pc = "scan"
    /\ filenames # {}
    /\ \E filename \in filenames :
        /\ filenames' = filenames \ {filename}
        /\ LET out == PlanEntry(filename, "Invalid filename result")
           IN /\ operations' = out.operations
              /\ errors' = out.errors
              /\ existing_items' = out.existing_items
    /\ error_ctx' = NoteErrors(errors')
    /\ UNCHANGED <<fs, fs0, to_remove, dry_run, skip_confirm, no_undo,
                   extensions, pc, result, walk, dirpath, dirnames, i,
                   successful_ops, rename_errors, undo, undo_script, attempted,
                   answer, root_directory, home, root_is_dir, root_writable,
                   exception, unlisted, s_in, s_out>>

\* One iteration of "for filename in filenames".
PlanFile ==
    /\ pc = "scan"
    /\ filenames # {}
    /\ \E filename \in filenames :
        /\ filenames' = filenames \ {filename}
        /\ IF ~should_process_file(filename, extensions)
           THEN UNCHANGED <<operations, errors, existing_items>>
           ELSE LET out == PlanEntry(filename, "Invalid filename result")
                IN /\ operations' = out.operations
                   /\ errors' = out.errors
                   /\ existing_items' = out.existing_items
    /\ error_ctx' = NoteErrors(errors')
    /\ UNCHANGED <<fs, fs0, to_remove, dry_run, skip_confirm, no_undo,
                   extensions, pc, result, walk, dirpath, dirnames, i,
                   successful_ops, rename_errors, undo, undo_script, attempted,
                   answer, root_directory, home, root_is_dir, root_writable,
                   exception, unlisted, s_in, s_out>>

\* One iteration of "for dirname in dirnames", after the files.
PlanDir ==
    /\ pc = "scan"
    /\ filenames = {}
    /\ dirnames # {}
    /\ \E dirname \in dirnames :
        /\ dirnames' = dirnames \ {dirname}
        /\ LET out == PlanEntry(dirname, "Invalid directory name")
           IN /\ operations' = out.operations
              /\ errors' = out.errors
              /\ existing_items' = out.existing_items
    /\ error_ctx' = NoteErrors(errors')
    /\ UNCHANGED <<fs, fs0, to_remove, dry_run, skip_confirm, no_undo,
                   extensions, pc, result, walk, dirpath, filenames, i,
                   successful_ops, rename_errors, undo, undo_script, attempted,
                   answer, root_directory, home, root_is_dir, root_writable,
                   exception, unlisted, s_in, s_out>>

\* The walk is exhausted: collect_rename_operations returns the plan.
FinishScan ==
    /\ pc = "scan"
    /\ filenames = {} /\ dirnames = {} /\ walk = <<>>
    /\ pc' = "planned"
    /\ UNCHANGED <<fs, fs0, to_remove, dry_run, skip_confirm, no_undo,
                   extensions, result, walk, dirpath, existing_items,
                   filenames, dirnames, operations, errors, i, successful_ops,
                   rename_errors, undo, undo_script, error_ctx, attempted,
                   answer, root_directory, home, root_is_dir, root_writable,
                   exception, unlisted, s_in, s_out>>

(***************************************************************************)
(* rename_files_and_dirs, after the scan                                   *)
(***************************************************************************)
\* Variant: the "if dry_run: ... return" block is missing.
AfterPlanned_without_dry_run_return ==
    IF operations = <<>> THEN "nothing_to_rename"
    ELSE IF ~skip_confirm THEN "awaiting_confirmation"
    ELSE "executing"

\* Where the run goes once the plan is known.
AfterPlanned ==
    IF dry_run THEN "dry_run_reported"
    ELSE IF operations = <<>> THEN "nothing_to_rename"
    ELSE IF ~skip_confirm THEN "awaiting_confirmation"
    ELSE "executing"

AtPlanned == pc = "planned" /\ result = "running"

\* "if dry_run: ... return"
DryRunReport ==
    /\ AtPlanned
    /\ AfterPlanned = "dry_run_reported"
    /\ pc' = "dry_run_reported"
    /\ result' = "returned"
    /\ UNCHANGED <<fs, fs0, to_remove, dry_run, skip_confirm, no_undo,
                   extensions, walk, dirpath, existing_items, filenames,
                   dirnames, operations, errors, i, successful_ops,
                   rename_errors, undo, undo_script, error_ctx, attempted,
                   answer, root_directory, home, root_is_dir, root_writable,
                   exception, unlisted, s_in, s_out>>

\* "if not operations: ... return"
NothingToRename ==
    /\ AtPlanned
    /\ AfterPlanned = "nothing_to_rename"
    /\ result' = "returned"
    /\ UNCHANGED <<fs, fs0, to_remove, dry_run, skip_confirm, no_undo,
                   extensions, pc, walk, dirpath, existing_items, filenames,
                   dirnames, operations, errors, i, successful_ops,
                   rename_errors, undo, undo_script, error_ctx, attempted,
                   answer, root_directory, home, root_is_dir, root_writable,
                   exception, unlisted, s_in, s_out>>

\* ask_confirmation prints the summary and waits for the answer.
Prompt ==
    /\ AtPlanned
    /\ AfterPlanned = "awaiting_confirmation"
    /\ pc' = "awaiting_confirmation"
    /\ UNCHANGED <<fs, fs0, to_remove, dry_run, skip_confirm, no_undo,
                   extensions, result, walk, dirpath, existing_items,
                   filenames, dirnames, operations, errors, i, successful_ops,
                   rename_errors, undo, undo_script, error_ctx, attempted,
                   answer, root_directory, home, root_is_dir, root_writable,
                   exception, unlisted, s_in, s_out>>

\* skip_confirm: straight to the loop.
SkipConfirmation ==
    /\ AtPlanned
    /\ AfterPlanned = "executing"
    /\ pc' = "executing"
    /\ UNCHANGED <<fs, fs0, to_remove, dry_run, skip_confirm, no_undo,
                   extensions, result, walk, dirpath, existing_items,
                   filenames, dirnames, operations, errors, i, successful_ops,
                   rename_errors, undo, undo_script, error_ctx, attempted,
                   answer, root_directory, home, root_is_dir, root_writable,
                   exception, unlisted, s_in, s_out>>

\* input() raises EOFError.
EOF == <<"EOF">>

\* The lines input() may return.
Lines ==
    {<<"y">>, <<"Y">>, <<"y", "e", "s">>, <<" ", "Y", "E", "S", " ">>,
     <<"n">>, <<"y", "e">>, <<>>, EOF}

\* str.lower()
Lower(line) == [k \in 1..Len(line) |-> LowerChar(line[k])]

\* Variant: the line is compared as it was typed.
ask_confirmation_as_typed(line) ==
    line # EOF /\ line \in {<<"y">>, <<"y", "e", "s">>}

\* What ask_confirmation returns for the line input() gave.
ask_confirmation(line) ==
    IF line = EOF THEN FALSE
    ELSE Lower(Strip(line)) \in {<<"y">>, <<"y", "e", "s">>}

\* input() returns a line, or raises EOFError.
Answer ==
    /\ pc = "awaiting_confirmation"
    /\ answer = NoAnswer
    /\ answer' \in Lines
    /\ UNCHANGED <<fs, fs0, to_remove, dry_run, skip_confirm, no_undo,
                   extensions, pc, result, walk, dirpath, existing_items,
                   filenames, dirnames, operations, errors, i, successful_ops,
                   rename_errors, undo, undo_script, error_ctx, attempted,
                   root_directory, home, root_is_dir, root_writable,
                   exception, unlisted, s_in, s_out>>

\* ask_confirmation returns: the loop starts, or "Operation cancelled."
Confirmation ==
    /\ pc = "awaiting_confirmation"
    /\ answer # NoAnswer
    /\ IF ask_confirmation(answer)
       THEN pc' = "executing" /\ result' = result
       ELSE pc' = "cancelled" /\ result' = "returned"
    /\ answer' = NoAnswer
    /\ UNCHANGED <<fs, fs0, to_remove, dry_run, skip_confirm, no_undo,
                   extensions, walk, dirpath, existing_items, filenames,
                   dirnames, operations, errors, i, successful_ops,
                   rename_errors, undo, undo_script, error_ctx, attempted,
                   root_directory, home, root_is_dir, root_writable,
                   exception, unlisted, s_in, s_out>>

\* rename_item: os.rename, and an error message when it raises.
RenameError(item_type, old_path, new_path) ==
    [item_type |-> item_type,
     old_name |-> os_path_basename(old_path),
     new_name |-> os_path_basename(new_path)]

rename_item(f, old_path, new_path, item_type, all_errors) ==
    {[ok |-> out.ok,
      fs |-> out.fs,
      all_errors |-> IF out.ok THEN all_errors
                     ELSE Append(all_errors,
                                 RenameError(item_type, old_path, new_path))] :
        out \in os_rename(f, old_path, new_path)}

\* Variant: the result of rename_item is ignored.
LogSuccess_always(log, ok, op) ==
    Append(log, <<op.old_path, op.new_path>>)

\* "if rename_item(...): successful_ops.append((old_path, new_path))"
LogSuccess(log, ok, op) ==
    IF ok THEN Append(log, <<op.old_path, op.new_path>>) ELSE log

\* One iteration of the executor loop; the loop ends after the last one.
ExecStep ==
    /\ pc = "executing"
    /\ result = "running"
    /\ i <= Len(operations)
    /\ \E out \in rename_item(fs, operations[i].old_path,
                              operations[i].new_path, "item", rename_errors) :
        /\ fs' = out.fs
        /\ rename_errors' = out.all_errors
        /\ successful_ops' = LogSuccess(successful_ops, out.ok, operations[i])
        /\ attempted' = Append(attempted,
                               [index |-> i, ok |-> out.ok,
                                target |-> Resolve(fs, operations[i].new_path)])
    /\ i' = i + 1
    /\ pc' = IF i = Len(operations) THEN "executed" ELSE pc
    /\ UNCHANGED <<fs0, to_remove, dry_run, skip_confirm, no_undo, extensions,
                   result, walk, dirpath, existing_items, filenames, dirnames,
                   operations, errors, undo, undo_script, error_ctx, answer,
                   root_directory, home, root_is_dir, root_writable, exception,
                   unlisted, s_in, s_out>>

(***************************************************************************)
(* utils.generate_undo_script: one command per successful operation, that  *)
(* renames its destination back to its source, in the reverse of the order *)
(* of the SuccessLog.                                                      *)
(***************************************************************************)
RECURSIVE ReverseSeq(_)
ReverseSeq(s) ==
    IF s = <<>> THEN <<>> ELSE Append(ReverseSeq(Tail(s)), Head(s))

generate_undo_script(log) ==
    [k \in 1..Len(log) |->
        [from |-> ReverseSeq(log)[k][2], to |-> ReverseSeq(log)[k][1]]]

WantsUndo == successful_ops # <<>> /\ ~no_undo

\* "if successful_ops and not no_undo: try: generate_undo_script(...)":
\* the script is written, or writing it raises and the failure is printed.
WriteUndo ==
    /\ pc = "executed"
    /\ result = "running"
    /\ undo = "none"
    /\ WantsUndo
    /\ \E written \in BOOLEAN :
        IF written
        THEN /\ undo' = "written"
             /\ undo_script' = generate_undo_script(successful_ops)
             /\ pc' = "undo_written"
        ELSE /\ undo' = "failed"
             /\ UNCHANGED <<undo_script, pc>>
    /\ UNCHANGED <<fs, fs0, to_remove, dry_run, skip_confirm, no_undo,
                   extensions, result, walk, dirpath, existing_items,
                   filenames, dirnames, operations, errors, i, successful_ops,
                   rename_errors, error_ctx, attempted, answer, root_directory,
                   home, root_is_dir, root_writable, exception, unlisted, s_in,
                   s_out>>

\* The errors and the summary are printed and the function ends; the last
\* print reads script_path, which is unbound when writing the script raised.
Summary ==
    /\ result = "running"
    /\ \/ pc = "undo_written"
       \/ pc = "executed" /\ (WantsUndo => undo = "failed")
    /\ IF WantsUndo /\ undo = "failed"
       THEN result' = "raised" /\ exception' = "UnboundLocalError"
       ELSE result' = "returned" /\ exception' = exception
    /\ UNCHANGED <<fs, fs0, to_remove, dry_run, skip_confirm, no_undo,
                   extensions, pc, walk, dirpath, existing_items, filenames,
                   dirnames, operations, errors, i, successful_ops,
                   rename_errors, undo, undo_script, error_ctx, attempted,
                   answer, root_directory, home, root_is_dir, root_writable,
                   unlisted, s_in, s_out>>

Next ==
    \/ WalkDescend
    \/ WalkYield
    \/ PlanFile
    \/ PlanDir
    \/ FinishScan
    \/ DryRunReport
    \/ NothingToRename
    \/ Prompt
    \/ SkipConfirmation
    \/ Answer
    \/ Confirmation
    \/ ExecStep
    \/ WriteUndo
    \/ Summary

Spec == Init /\ [][Next]_vars

(***************************************************************************)
(* rename_directory: the guard in front of rename_files_and_dirs.  A       *)
(* root_directory argument is an absolute POSIX path, written as the       *)
(* sequence of its components.                                             *)
(***************************************************************************)
\* The longest root_directory argument followed.
MaxDepth == 3

Components == {"etc", "home", "u", ".."}

RootArguments == UNION {[1..n -> Components] : n \in 0..MaxDepth}

\* The home directories of the invoking user.
HomeChoices == {<<"home", "u">>, <<"u">>}

\* os.path.abspath of an absolute path: ".." steps to the parent directory,
\* and the parent of "/" is "/".
RECURSIVE NormalizeFrom(_, _, _)
NormalizeFrom(path, k, done) ==
    IF k > Len(path) THEN done
    ELSE IF path[k] = ".."
    THEN NormalizeFrom(path, k + 1, SubSeq(done, 1, Len(done) - 1))
    ELSE NormalizeFrom(path, k + 1, Append(done, path[k]))

os_path_abspath(path) == NormalizeFrom(path, 1, <<>>)

\* Path.parents: every proper ancestor, "/" among them.
Parents(path) == {SubSeq(path, 1, n) : n \in 0..(Len(path) - 1)}

unix_system_dirs ==
    {<<"bin">>, <<"boot">>, <<"dev">>, <<"etc">>, <<"lib">>, <<"lib64">>,
     <<"proc">>, <<"root">>, <<"sbin">>, <<"sys">>, <<"usr">>, <<"var">>,
     <<"opt">>, <<"srv">>, <<"tmp">>, <<"run">>, <<"mnt">>, <<"media">>}

\* Variant: the home directory is matched like a system directory, equal
\* or within.
is_system_directory_home_within(path) ==
    LET path_obj == os_path_abspath(path)
    IN \/ path_obj = <<>>
       \/ \E sys_path \in unix_system_dirs :
            path_obj = sys_path \/ sys_path \in Parents(path_obj)
       \/ path_obj = home \/ home \in Parents(path_obj)

\* is_system_directory on a POSIX platform (platform.system() is not
\* "Windows"): "/" and the home directory by equality only, the system
\* directories by equality or as an ancestor.
is_system_directory(path) ==
    LET path_obj == os_path_abspath(path)
    IN \/ path_obj = <<>>
       \/ \E sys_path \in unix_system_dirs :
            path_obj = sys_path \/ sys_path \in Parents(path_obj)
       \/ path_obj = home

\* The list of the first command line (main.py at the top of the
\* repository), and its test: equality only.
system_dirs ==
    {<<>>, <<"bin">>, <<"boot">>, <<"dev">>, <<"etc">>, <<"lib">>,
     <<"lib64">>, <<"proc">>, <<"root">>, <<"sbin">>, <<"sys">>, <<"usr">>,
     <<"var">>}

in_system_dirs(path) == os_path_abspath(path) \in system_dirs

\* Variant: the writable test is missing.
guard_without_access_test ==
    IF ~root_is_dir THEN "FileNotFoundError"
    ELSE IF is_system_directory(root_directory) THEN "ValueError"
    ELSE "none"

\* The exception the three tests of rename_directory raise, in their
\* order, or "none".
guard ==
    IF ~root_is_dir THEN "FileNotFoundError"
    ELSE IF ~dry_run /\ ~root_writable THEN "PermissionError"
    ELSE IF is_system_directory(root_directory) THEN "ValueError"
    ELSE "none"

\* A test of the guard fails: rename_directory raises.
GuardRaises ==
    /\ pc = "guard"
    /\ result = "running"
    /\ guard # "none"
    /\ result' = "raised"
    /\ exception' = guard
    /\ UNCHANGED <<fs, fs0, to_remove, dry_run, skip_confirm, no_undo,
                   extensions, pc, walk, dirpath, existing_items, filenames,
                   dirnames, operations, errors, i, successful_ops,
                   rename_errors, undo, undo_script, error_ctx, attempted,
                   answer, root_directory, home, root_is_dir, root_writable,
                   unlisted, s_in, s_out>>

\* The guard passes: rename_files_and_dirs is called and os.walk starts.
GuardPasses ==
    /\ pc = "guard"
    /\ result = "running"
    /\ guard = "none"
    /\ pc' = "scan"
    /\ walk' = <<RootFrame(fs)>>
    /\ UNCHANGED <<fs, fs0, to_remove, dry_run, skip_confirm, no_undo,
                   extensions, result, dirpath, existing_items, filenames,
                   dirnames, operations, errors, i, successful_ops,
                   rename_errors, undo, undo_script, error_ctx, attempted,
                   answer, root_directory, home, root_is_dir, root_writable,
                   exception, unlisted, s_in, s_out>>

\* What is below root_directory: nothing when it is not a directory, else
\* at most one entry.
NoTree == [n \in Ids |-> Dead]

GuardTrees ==
    {[n \in Ids |-> IF n = 1 THEN t[1] ELSE Dead] : t \in TreesOf(1)}

GuardInit ==
    /\ root_directory \in RootArguments
    /\ home \in HomeChoices
    /\ root_is_dir \in BOOLEAN
    /\ root_writable \in BOOLEAN
    /\ fs \in IF root_is_dir THEN GuardTrees ELSE {NoTree}
    /\ to_remove \in ToRemoveChoices
    /\ dry_run \in BOOLEAN
    /\ skip_confirm = TRUE
    /\ no_undo = FALSE
    /\ extensions = NoExtensions
    /\ pc = "guard"
    /\ walk = <<>>
    /\ NothingDone
    /\ NoCall

GuardNext ==
    \/ GuardRaises
    \/ GuardPasses
    \/ WalkDescend
    \/ WalkYield
    \/ PlanFile
    \/ PlanDir
    \/ FinishScan
    \/ DryRunReport
    \/ NothingToRename
    \/ SkipConfirmation
    \/ ExecStep
    \/ WriteUndo
    \/ Summary

GuardSpec == GuardInit /\ [][GuardNext]_vars

(***************************************************************************)
(* main: how the process ends.                                             *)
(***************************************************************************)
\* The exit code: 130 after KeyboardInterrupt, 1 after any other exception
\* that left rename_directory, 0 when it returned.
exit_code ==
    CASE exception = "KeyboardInterrupt" -> 130
      [] result = "raised" -> 1
      [] OTHER -> 0

\* The user interrupts the loop: KeyboardInterrupt leaves
\* rename_files_and_dirs and rename_directory, main prints "Operation
\* cancelled by user." and exits.  Nothing reads successful_ops afterwards.
Interrupt ==
    /\ pc = "executing"
    /\ result = "running"
    /\ result' = "raised"
    /\ exception' = "KeyboardInterrupt"
    /\ UNCHANGED <<fs, fs0, to_remove, dry_run, skip_confirm, no_undo,
                   extensions, pc, walk, dirpath, existing_items, filenames,
                   dirnames, operations, errors, i, successful_ops,
                   rename_errors, undo, undo_script, error_ctx, attempted,
                   answer, root_directory, home, root_is_dir, root_writable,
                   unlisted, s_in, s_out>>

InterruptNext == Next \/ Interrupt

InterruptSpec == Init /\ [][InterruptNext]_vars

(***************************************************************************)
(* collect_rename_operations when a directory cannot be listed             *)
(***************************************************************************)
ListingError(dir) == [msg |-> "Cannot list directory", dirpath |-> dir]

\* os.walk cannot scan a subdirectory: os.scandir raises OSError, os.walk
\* was given no onerror and drops the directory; it yields nothing for it
\* and for what is below it.
WalkScanFails ==
    /\ Walking
    /\ Top.todo # {}
    /\ topdown => Top.yielded
    /\ \E d \in Top.todo :
        LET rest == Top.todo \ {d}
        IN /\ walk' = IF Top.yielded /\ rest = {}
                      THEN SubSeq(walk, 1, Len(walk) - 1)
                      ELSE [walk EXCEPT ![Len(walk)].todo = rest]
           /\ unlisted' = unlisted \cup {os_path_join(Top.path, d)}
    /\ UNCHANGED <<fs, fs0, to_remove, dry_run, skip_confirm, no_undo,
                   extensions, pc, result, dirpath, existing_items, filenames,
                   dirnames, operations, errors, i, successful_ops,
                   rename_errors, undo, undo_script, error_ctx, attempted,
                   answer, root_directory, home, root_is_dir, root_writable,
                   exception, s_in, s_out>>

\* os.walk yields a directory and os.listdir(dirpath) raises OSError: the
\* error is appended and the loop continues with the next directory.
ListdirFails ==
    /\ Walking
    /\ ~Top.yielded
    /\ topdown \/ Top.todo = {}
    /\ walk' = IF Top.todo = {} THEN SubSeq(walk, 1, Len(walk) - 1)
               ELSE [walk EXCEPT ![Len(walk)].yielded = TRUE]
    /\ dirpath' = Top.path
    /\ errors' = Append(errors, ListingError(Top.path))
    /\ error_ctx' = Append(error_ctx,
                           [dir |-> Top.path, planned |-> Len(operations)])
    /\ unlisted' = unlisted \cup {Top.path}
    /\ UNCHANGED <<fs, fs0, to_remove, dry_run, skip_confirm, no_undo,
                   extensions, pc, result, existing_items, filenames,
                   dirnames, operations, i, successful_ops, rename_errors,
                   undo, undo_script, attempted, answer, root_directory,
                   home, root_is_dir, root_writable, exception, s_in, s_out>>

ListNext == Next \/ WalkScanFails \/ ListdirFails

ListSpec == Init /\ [][ListNext]_vars

(***************************************************************************)
(* remove_substrings called on its own                                     *)
(***************************************************************************)
\* The longest argument s, the longest substring and the largest number of
\* substrings followed.
MaxNameLen == 3

MaxSubLen == 2

MaxSubs == 2

NameChars == {"a", "b", "A"}

SubChars == {"a", "b"}

Strings(chars, n) == UNION {[1..m -> chars] : m \in 0..n}

\* A set of substrings in one of its iteration orders: no element twice.
IterationOrders ==
    {subs \in UNION {[1..m -> Strings(SubChars, MaxSubLen)] : m \in 1..MaxSubs} :
        \A j, k \in 1..Len(subs) : subs[j] = subs[k] => j = k}

RemoveInit ==
    /\ s_in \in Strings(NameChars, MaxNameLen)
    /\ to_remove \in IterationOrders
    /\ s_out = <<>>
    /\ pc = "call"
    /\ fs = NoTree
    /\ dry_run = FALSE
    /\ skip_confirm = FALSE
    /\ no_undo = FALSE
    /\ extensions = NoExtensions
    /\ walk = <<>>
    /\ NothingDone
    /\ GuardPassed

\* remove_substrings(s, to_remove) returns.
CallRemoveSubstrings ==
    /\ pc = "call"
    /\ s_out' = remove_substrings(s_in, to_remove)
    /\ pc' = "called"
    /\ UNCHANGED <<fs, fs0, to_remove, dry_run, skip_confirm, no_undo,
                   extensions, result, walk, dirpath, existing_items,
                   filenames, dirnames, operations, errors, i, successful_ops,
                   rename_errors, undo, undo_script, error_ctx, attempted,
                   answer, root_directory, home, root_is_dir, root_writable,
                   exception, unlisted, s_in>>

RemoveNext == CallRemoveSubstrings

RemoveSpec == RemoveInit /\ [][RemoveNext]_vars

(***************************************************************************)
(* collect_rename_operations alone: a dry run, which ends after the scan   *)
(***************************************************************************)
PlanInit ==
    /\ Init
    /\ dry_run = TRUE
    /\ skip_confirm = FALSE
    /\ no_undo = FALSE

PlanNext ==
    \/ WalkDescend
    \/ WalkYield
    \/ PlanFile
    \/ PlanDir
    \/ FinishScan
    \/ DryRunReport

PlanSpec == PlanInit /\ [][PlanNext]_vars

(***************************************************************************)
(* collect_rename_operations on one directory, with and without an         *)
(* extension allow-list                                                    *)
(***************************************************************************)
ExtNameList ==
    << <<"x", "a", "b", ".", "t">>,
       <<"x", ".", "t", "a", "b">>,
       <<"x", "a", "b">> >>

ExtNames == {ExtNameList[k] : k \in 1..Len(ExtNameList)}

\* root_dir holds up to MaxNodes entries, files or empty directories.
FlatTrees ==
    {f \in [Ids -> {Dead} \cup [parent : {0}, name : ExtNames, kind : Kinds,
                                alive : {TRUE}]] :
        /\ \A j, k \in Ids :
            (f[j].alive /\ f[k].alive /\ f[j].name = f[k].name) => j = k
        /\ \A k \in Ids : (f[k].alive /\ k > 1) => f[k - 1].alive}

ExtInit ==
    /\ fs \in FlatTrees
    /\ to_remove \in ToRemoveChoices
    /\ extensions \in ExtensionChoices
    /\ dry_run = TRUE
    /\ skip_confirm = FALSE
    /\ no_undo = FALSE
    /\ pc = "scan"
    /\ walk = <<RootFrame(fs)>>
    /\ NothingDone
    /\ GuardPassed
    /\ NoCall

ExtNext ==
    \/ WalkDescend
    \/ WalkYield
    \/ PlanFile
    \/ PlanDir
    \/ FinishScan
    \/ DryRunReport

ExtSpec == ExtInit /\ [][ExtNext]_vars

(***************************************************************************)
(* A run on a root directory whose own name is spelled out: os.walk yields *)
(* root_dir itself as the last dirpath, and every other dirpath and every  *)
(* path of an operation is root_dir joined with names found below it.      *)
(***************************************************************************)
\* The names of the root directory: one without and one with a target.
RootNames == {<<"r">>, <<"r", "a", "b">>}

\* The path the code holds for the path rel the model keeps relative to
\* root_dir.
FullPath(rel) == root_directory \o rel

RootInit ==
    /\ fs \in Trees
    /\ to_remove \in ToRemoveChoices
    /\ dry_run = FALSE
    /\ skip_confirm = TRUE
    /\ no_undo = TRUE
    /\ extensions = NoExtensions
    /\ pc = "scan"
    /\ walk = <<RootFrame(fs)>>
    /\ NothingDone
    /\ root_directory \in {<<name>> : name \in RootNames}
    /\ home = <<"home", "u">>
    /\ root_is_dir = TRUE
    /\ root_writable = TRUE
    /\ NoCall

RootNext ==
    \/ WalkDescend
    \/ WalkYield
    \/ PlanFile
    \/ PlanDir
    \/ FinishScan
    \/ NothingToRename
    \/ SkipConfirmation
    \/ ExecStep
    \/ Summary

RootSpec == RootInit /\ [][RootNext]_vars

(***************************************************************************)
(* Vocabulary of the properties                                            *)
(***************************************************************************)
\* Whether path p lies strictly inside the directory d.
StrictlyInside(p, d) == Len(d) < Len(p) /\ SubSeq(p, 1, Len(d)) = d

SameDirectory(p, q) == os_path_dirname(p) = os_path_dirname(q)

\* The operations the executor loop has not attempted yet.
Pending == IF pc \in {"scan", "planned", "awaiting_confirmation"}
           THEN 1..Len(operations)
           ELSE i..Len(operations)

Executing == pc = "executing" /\ i <= Len(operations)

\* Whether the k-th operation was attempted and its rename succeeded.
Succeeded(k) == k <= Len(attempted) /\ attempted[k].ok

\* C1: in the plan, an operation on an entry that lies strictly inside the
\* directory another operation renames comes strictly earlier than that
\* directory's operation.
C1_BottomUpOrder ==
    \A j, k \in 1..Len(operations) :
        StrictlyInside(operations[j].old_path, operations[k].old_path)
            => j < k

\* A finished plan that renames a directory and an entry inside it.
C1_Witness ==
    /\ pc = "planned"
    /\ \E j, k \in 1..Len(operations) :
        StrictlyInside(operations[j].old_path, operations[k].old_path)

C3_SourceExists ==
    \A k \in Pending :
        /\ Resolve(fs, operations[k].old_path) # Missing
        /\ Resolve(fs, operations[k].old_path)
               = Resolve(fs0, operations[k].old_path)

\* The loop is about to rename a directory after an entry inside it was
\* renamed.
C3_Witness ==
    /\ Executing
    /\ \E j \in 1..(i - 1) :
        /\ Succeeded(j)
        /\ StrictlyInside(operations[j].old_path, operations[i].old_path)

\* The set of paths and kinds of a tree.
TreeOf(f) ==
    {<<PathOf(f, n), f[n].kind>> : n \in {m \in DOMAIN f : f[m].alive}}

\* One command of the undo script: the rename, when it can be done.
UndoRename(f, cmd) ==
    LET done == {out \in os_rename(f, cmd.from, cmd.to) : out.ok}
    IN IF done = {} THEN RenameFailed(f) ELSE CHOOSE out \in done : TRUE

\* The undo script run from its k-th command on: whether every command
\* succeeded, and the tree it leaves.
RECURSIVE ApplyUndo(_, _, _)
ApplyUndo(f, script, k) ==
    IF k > Len(script) THEN [ok |-> TRUE, fs |-> f]
    ELSE LET out == UndoRename(f, script[k])
             rest == ApplyUndo(out.fs, script, k + 1)
         IN [ok |-> out.ok /\ rest.ok, fs |-> rest.fs]

LoopDone == pc \in {"executed", "undo_written"}

\* C4: after the loop, when the SuccessLog is not empty, the undo commands
\* (destination back to source, in the reverse of the log's order) all
\* succeed and leave exactly the paths and kinds of the tree before the run.
C4_UndoRoundTrip ==
    (LoopDone /\ successful_ops # <<>>) =>
        LET undone == ApplyUndo(fs, generate_undo_script(successful_ops), 1)
        IN undone.ok /\ TreeOf(undone.fs) = TreeOf(fs0)

\* The pairs of the operations whose attempt succeeded, in plan order.
RECURSIVE SuccessesUpTo(_)
SuccessesUpTo(k) ==
    IF k = 0 THEN <<>>
    ELSE IF attempted[k].ok
    THEN Append(SuccessesUpTo(k - 1),
                <<operations[k].old_path, operations[k].new_path>>)
    ELSE SuccessesUpTo(k - 1)

\* The names of the operations whose attempt failed, in plan order.
RECURSIVE FailuresUpTo(_)
FailuresUpTo(k) ==
    IF k = 0 THEN <<>>
    ELSE IF ~attempted[k].ok
    THEN Append(FailuresUpTo(k - 1),
                <<operations[k].old_name, operations[k].new_name>>)
    ELSE FailuresUpTo(k - 1)

\* C5: the loop attempts the operations one by one in plan order, whatever
\* failed before; the SuccessLog is the subsequence of the operations whose
\* rename succeeded, the error list has one entry per failed operation, and
\* every entry renamed with success keeps its new name.
C5_ExecutorLog ==
    /\ \A k \in 1..Len(attempted) : attempted[k].index = k
    /\ pc = "executing" => Len(attempted) = i - 1
    /\ LoopDone => Len(attempted) = Len(operations)
    /\ successful_ops = SuccessesUpTo(Len(attempted))
    /\ Len(rename_errors) = Len(FailuresUpTo(Len(attempted)))
    /\ \A k \in 1..Len(rename_errors) :
        <<rename_errors[k].old_name, rename_errors[k].new_name>>
            = FailuresUpTo(Len(attempted))[k]
    /\ \A k \in 1..Len(attempted) :
        attempted[k].ok =>
            LET e == Resolve(fs0, operations[k].old_path)
            IN fs[e].alive /\ fs[e].name = operations[k].new_name

\* The loop is over, its first operation failed and a later one succeeded.
C5_Witness ==
    /\ LoopDone
    /\ Len(attempted) > 1
    /\ ~attempted[1].ok
    /\ \E k \in 2..Len(attempted) : attempted[k].ok

\* C6: an operation whose destination exists when the loop applies it
\* fails and leaves the entry at the destination in place, so every entry
\* of the tree before the run still exists, under its name or its new name.
C6_ExistingTargetKept ==
    /\ \A k \in 1..Len(attempted) :
        attempted[k].target # Missing =>
            ~attempted[k].ok /\ fs[attempted[k].target].alive
    /\ \A n \in Ids :
        fs0[n].alive =>
            /\ fs[n].alive
            /\ fs[n].name \in {fs0[n].name,
                               remove_substrings(fs0[n].name, to_remove)}

\* The entries of the tree before the run.
Entries == {n \in Ids : fs0[n].alive}

NewNameOf(n) == remove_substrings(fs0[n].name, to_remove)

\* The entries the planner looks at: every directory, and the files the
\* extension allow-list lets through.
Considered(n) ==
    fs0[n].kind = "dir" \/ should_process_file(fs0[n].name, extensions)

HasOperation(n) ==
    \E k \in 1..Len(operations) : operations[k].old_path = PathOf(fs0, n)

KeepsName(n) == fs[n].alive /\ fs[n].name = fs0[n].name

\* The planning errors with a given message about entry n.
ErrorsAbout(n, msgs) ==
    {k \in 1..Len(errors) :
        /\ errors[k].msg \in msgs
        /\ os_path_join(error_ctx[k].dir, errors[k].name) = PathOf(fs0, n)}

\* The names of a directory as the first k operations of the plan leave
\* them: the names on disk, each operation of the directory replacing its
\* old name by its new name.
RECURSIVE ViewAfter(_, _)
ViewAfter(dir, k) ==
    IF k = 0 THEN listdir(fs0, dir)
    ELSE IF os_path_dirname(operations[k].old_path) = dir
    THEN (ViewAfter(dir, k - 1) \ {operations[k].old_name})
             \cup {operations[k].new_name}
    ELSE ViewAfter(dir, k - 1)

ConflictErrors == {k \in 1..Len(errors) : errors[k].msg = "Name conflict"}

\* The entry a name-conflict error is about.
Rejected(k) == Resolve(fs0, os_path_join(error_ctx[k].dir, errors[k].name))

\* The entry that held the conflicting name in the planner's view: the
\* source of the planned operation that produced the name, or else the
\* entry that has it on disk.
Holder(k) ==
    LET made == {j \in 1..error_ctx[k].planned :
                    /\ os_path_dirname(operations[j].old_path)
                           = error_ctx[k].dir
                    /\ operations[j].new_name = errors[k].new_name}
        last == CHOOSE j \in made : \A m \in made : m <= j
    IN IF made # {} THEN Resolve(fs0, operations[last].old_path)
       ELSE Resolve(fs0, os_path_join(error_ctx[k].dir, errors[k].new_name))

\* No operation is planned onto a name that is in the planner's view of
\* its directory.
NoOperationOntoTakenName ==
    \A k \in 1..Len(operations) :
        operations[k].new_name
            \notin ViewAfter(os_path_dirname(operations[k].old_path), k - 1)

\* C7 as stated: no operation is planned onto a name in the planner's view;
\* the entry of every name-conflict error has no operation and keeps its
\* name, and once the run is over the entry that held the conflicting name
\* has its original name too.
C7_ConflictKeepsBothNames ==
    /\ NoOperationOntoTakenName
    /\ \A k \in ConflictErrors :
        /\ ~HasOperation(Rejected(k))
        /\ KeepsName(Rejected(k))
        /\ result # "running" => KeepsName(Holder(k))

\* C7 amended: no operation is planned onto a name that is in the planner's
\* view of the directory; every entry the planner considers whose new name
\* is valid and differs gets an operation or a name-conflict error, never
\* both; the entry of a name-conflict error keeps its name, and so does the
\* entry that held the conflicting name unless the plan renames that entry.
C7_ConflictRejected ==
    /\ NoOperationOntoTakenName
    /\ pc # "scan" =>
        \A n \in Entries :
            (/\ Considered(n)
             /\ NewNameOf(n) # fs0[n].name
             /\ is_valid_filename(NewNameOf(n)))
                => (HasOperation(n) <=> ErrorsAbout(n, {"Name conflict"}) = {})
    /\ \A k \in ConflictErrors :
        /\ Rejected(k) # Missing
        /\ errors[k].new_name = NewNameOf(Rejected(k))
        /\ errors[k].new_name # errors[k].name
        /\ errors[k].new_name
               \in ViewAfter(error_ctx[k].dir, error_ctx[k].planned)
        /\ ~HasOperation(Rejected(k))
        /\ KeepsName(Rejected(k))
        /\ Holder(k) # Missing
        /\ ~HasOperation(Holder(k)) => KeepsName(Holder(k))

\* A run is over in which an entry was rejected because an entry the plan
\* does not rename has the name it would get.
C7_Witness ==
    /\ result # "running"
    /\ \E k \in ConflictErrors : ~HasOperation(Holder(k))

\* The names is_valid_filename is meant to reject: nothing but dots and
\* spaces (the empty name, ".", ".." and whitespace among them).
InvalidName(name) == \A k \in 1..Len(name) : name[k] \in {".", " "}

InvalidMessages == {"Invalid filename result", "Invalid directory name"}

\* The entries whose new name differs from their name and is invalid.
InvalidRenames ==
    {n \in Entries :
        NewNameOf(n) # fs0[n].name /\ InvalidName(NewNameOf(n))}

\* C8 as stated: no operation has an invalid destination name; every file
\* or directory whose new name is invalid has no operation, keeps its name
\* and, after the scan, has a planning error.
C8_EveryInvalidReported ==
    /\ \A k \in 1..Len(operations) : ~InvalidName(operations[k].new_name)
    /\ \A n \in InvalidRenames :
        /\ ~HasOperation(n)
        /\ KeepsName(n)
        /\ pc # "scan" => ErrorsAbout(n, InvalidMessages) # {}

\* C8 amended: no operation has an invalid destination name; every entry
\* whose new name is invalid has no operation and keeps its name; after the
\* scan it has a planning error if it is a directory or a file the
\* extension allow-list lets through.
C8_InvalidRejected ==
    /\ \A k \in 1..Len(operations) : ~InvalidName(operations[k].new_name)
    /\ \A n \in InvalidRenames :
        /\ ~HasOperation(n)
        /\ KeepsName(n)
        /\ (pc # "scan" /\ Considered(n))
               => ErrorsAbout(n, InvalidMessages) # {}

\* The loop is over and an entry with an invalid new name was reported.
C8_Witness ==
    /\ LoopDone
    /\ successful_ops # <<>>
    /\ \E n \in InvalidRenames : ErrorsAbout(n, InvalidMessages) # {}

\* Whether sub occurs in name, compared without regard to case.
Occurs(sub, name) ==
    \E k \in 1..(Len(name) - Len(sub) + 1) :
        \A j \in 1..Len(sub) : LowerChar(name[k + j - 1]) = LowerChar(sub[j])

NoNameMatches ==
    \A n \in Entries :
        \A k \in 1..Len(to_remove) :
            to_remove[k] = <<>> \/ ~Occurs(to_remove[k], fs0[n].name)

\* C9: when no name of the tree contains a substring of the set, the plan
\* stays empty and the tree stays as it was.
C9_NoMatchNoChange ==
    NoNameMatches => operations = <<>> /\ fs = fs0

\* A run over a tree with entries, none of which matches, has ended.
C9_Witness ==
    /\ NoNameMatches
    /\ Entries # {}
    /\ ~dry_run
    /\ result = "returned"

\* C10 as stated: a run ends only in DryRunReported, Cancelled, Executed or
\* UndoWritten.
C10_EndsInTerminalState ==
    result # "running" =>
        pc \in {"dry_run_reported", "cancelled", "executed", "undo_written"}

LifecycleEdges ==
    {<<"scan", "planned">>,
     <<"planned", "dry_run_reported">>,
     <<"planned", "awaiting_confirmation">>,
     <<"planned", "executing">>,
     <<"awaiting_confirmation", "cancelled">>,
     <<"awaiting_confirmation", "executing">>,
     <<"executing", "executed">>,
     <<"executed", "undo_written">>}

\* C10 amended: every step stays in its lifecycle state or follows an edge
\* of Guarded -> Planned -> (DryRunReported | AwaitingConfirmation ->
\* (Cancelled | Executed -> UndoWritten)), a dry run leaves Planned to
\* DryRunReported only, a run that is not dry leaves it to
\* AwaitingConfirmation or, when confirmation is skipped, to the loop; the
\* run ends in DryRunReported, Cancelled, Executed or UndoWritten, or in
\* Planned when it is not dry and the plan is empty.
C10_Lifecycle ==
    [][/\ pc' # pc => <<pc, pc'>> \in LifecycleEdges
       /\ (pc = "planned" /\ pc' # pc) =>
            /\ dry_run <=> pc' = "dry_run_reported"
            /\ ~dry_run => (skip_confirm <=> pc' = "executing")
       /\ result' # "running" =>
            \/ pc' \in {"dry_run_reported", "cancelled", "executed",
                        "undo_written"}
            \/ pc' = "planned" /\ ~dry_run /\ operations = <<>>
       /\ result # "running" => result' = result /\ pc' = pc]_vars

\* A run was confirmed, executed, wrote its undo script and returned.
C10_Witness ==
    /\ pc = "undo_written"
    /\ result = "returned"
    /\ ~skip_confirm

\* Nothing on disk was renamed or written by the run.
Untouched ==
    /\ fs = fs0
    /\ attempted = <<>>
    /\ successful_ops = <<>>
    /\ undo = "none"
    /\ undo_script = <<>>

\* The lifecycle positions before the executor loop, and the two in which a
\* run ends without entering it.
BeforeLoop ==
    {"scan", "planned", "awaiting_confirmation", "dry_run_reported",
     "cancelled"}

\* C11: planning renames nothing and writes nothing; a dry run never
\* leaves that condition; a run that asks for confirmation is cancelled,
\* tree untouched and no undo script written, exactly when the line read is
\* the end of input or is not y or yes once stripped and lower-cased.
C11_NoEffectUnlessConfirmed ==
    [][/\ (pc \in BeforeLoop \/ dry_run) => Untouched
       /\ (pc' \in BeforeLoop \/ dry_run) => Untouched'
       /\ (pc = "awaiting_confirmation" /\ pc' # pc) =>
            /\ pc' \in {"executing", "cancelled"}
            /\ pc' = "executing" <=>
                    /\ answer # EOF
                    /\ Lower(Strip(answer)) \in {<<"y">>, <<"y", "e", "s">>}
            /\ pc' = "cancelled" => result' = "returned" /\ fs' = fs0
       /\ pc' = "dry_run_reported" => result' = "returned"]_vars

\* A run with a plan that is not empty was declined and has returned.
C11_Witness ==
    /\ pc = "cancelled"
    /\ result = "returned"
    /\ operations # <<>>
    /\ fs = fs0

GuardErrors == {"FileNotFoundError", "PermissionError", "ValueError"}

\* What makes rename_directory refuse its root_directory argument.
Refused ==
    \/ ~root_is_dir
    \/ ~dry_run /\ ~root_writable
    \/ is_system_directory(root_directory)

\* C12: the step that evaluates the guard raises exactly when the root is
\* missing, not writable in a run that is not dry, or protected, and then
\* no directory has been listed, nothing is planned and nothing is renamed,
\* now or later; the walk starts only in a step in which the guard passes,
\* and no later step raises one of the guard's errors.
C12_GuardBeforeTraversal ==
    [][/\ pc = "guard" =>
            /\ exception' \in GuardErrors <=> Refused
            /\ pc' = "scan" <=> ~Refused
            /\ walk = <<>> /\ dirpath = <<>> /\ existing_items = {}
       /\ exception' \in GuardErrors =>
            /\ pc' = "guard" /\ result' = "raised"
            /\ walk' = <<>> /\ dirpath' = <<>> /\ existing_items' = {}
            /\ operations' = <<>> /\ errors' = <<>>
            /\ Untouched'
       /\ pc # "guard" => exception' \notin GuardErrors /\ ~Refused
       /\ exception \in GuardErrors => UNCHANGED vars]_vars

\* rename_directory raised on a protected root that is a writable
\* directory holding a name the run would have changed.
C12_Witness ==
    /\ exception = "ValueError"
    /\ root_writable
    /\ \E n \in Entries : NewNameOf(n) # fs0[n].name

\* The denylist of the claim: the filesystem root, the system directories
\* and the home directory.
Denylist == {<<>>, home} \cup unix_system_dirs

\* The guard has been evaluated up to its call of is_system_directory.
GuardDone ==
    /\ pc # "guard" \/ result # "running"
    /\ root_is_dir
    /\ dry_run \/ root_writable

C14_UndoFailureCompletes ==
    (undo = "failed" /\ result # "running") =>
        /\ successful_ops # <<>>
        /\ \A k \in 1..Len(attempted) :
            attempted[k].ok =>
                fs[Resolve(fs0, operations[k].old_path)].name
                    = operations[k].new_name
        /\ result = "returned"
        /\ exception = "none"
        /\ exit_code = 0

\* C15: after an interrupt of the loop the entries renamed so far keep
\* their new names, and when a rename succeeded and an undo script is
\* wanted, the undo script of the SuccessLog is written.
C15_InterruptKeepsUndo ==
    exception = "KeyboardInterrupt" =>
        /\ \A k \in 1..Len(attempted) :
            attempted[k].ok =>
                fs[Resolve(fs0, operations[k].old_path)].name
                    = operations[k].new_name
        /\ WantsUndo =>
            /\ undo = "written"
            /\ undo_script = generate_undo_script(successful_ops)

\* The planning errors about a directory that could not be listed.
ListingErrors(dir) ==
    {k \in 1..Len(errors) :
        /\ errors[k].msg = "Cannot list directory"
        /\ errors[k].dirpath = dir}

\* C16: once the scan is over, every directory a listing call failed on
\* has a planning error that names it and no operation on one of its own
\* entries, and every entry of a directory that could be listed is planned
\* as usual: it has an operation or a name-conflict error when the planner
\* considers it and its new name differs and is valid.
C16_UnlistableReported ==
    pc # "scan" =>
        /\ \A dir \in unlisted :
            /\ ListingErrors(dir) # {}
            /\ \A k \in 1..Len(operations) :
                os_path_dirname(operations[k].old_path) # dir
        /\ \A n \in Entries :
            (/\ os_path_dirname(PathOf(fs0, n)) \notin unlisted
             /\ Considered(n)
             /\ NewNameOf(n) # fs0[n].name
             /\ is_valid_filename(NewNameOf(n)))
                => \/ HasOperation(n)
                   \/ \E k \in ConflictErrors :
                        os_path_join(error_ctx[k].dir, errors[k].name)
                            = PathOf(fs0, n)

\* Whether two characters are the same letter, whatever their case.
SameLetter(c, d) == c = d \/ {c, d} \in {{"a", "A"}, {"b", "B"}}

OccursAt(name, sub, k) ==
    /\ k + Len(sub) - 1 <= Len(name)
    /\ \A j \in 1..Len(sub) : SameLetter(name[k + j - 1], sub[j])

\* The positions of name that an occurrence of sub covers.
Covered(name, sub) ==
    {k + j - 1 : k \in {m \in 1..Len(name) : OccursAt(name, sub, m)},
                 j \in 1..Len(sub)}

\* No occurrence of a substring shares a position of the name with an
\* occurrence of another substring.
NonOverlapping(name, subs) ==
    \A j, k \in 1..Len(subs) :
        j # k => Covered(name, subs[j]) \cap Covered(name, subs[k]) = {}

\* The orders in which a set of substrings can be iterated.
Orders(subs) ==
    {[k \in 1..Len(subs) |-> subs[f[k]]] :
        f \in {g \in [1..Len(subs) -> 1..Len(subs)] :
                  \A j, k \in 1..Len(subs) : g[j] = g[k] => j = k}}

\* C18: for non-empty substrings whose occurrences in the name do not
\* overlap, what remove_substrings returned is what it returns for every
\* other iteration order of the same set.
C18_OrderIndependent ==
    (/\ pc = "called"
     /\ \A k \in 1..Len(to_remove) : to_remove[k] # <<>>
     /\ NonOverlapping(s_in, to_remove))
        => \A subs \in Orders(to_remove) :
                remove_substrings(s_in, subs) = s_out

\* The starts of the occurrences a left-to-right scan from position k
\* finds: the leftmost one, then the leftmost one after its end, and so on.
RECURSIVE ScanStarts(_, _, _)
ScanStarts(name, sub, k) ==
    IF k > Len(name) THEN {}
    ELSE IF OccursAt(name, sub, k)
    THEN {k} \cup ScanStarts(name, sub, k + Len(sub))
    ELSE ScanStarts(name, sub, k + 1)

\* The characters of name at the positions of keep, in their order.
Kept(name, keep) ==
    [j \in 1..Cardinality(keep) |->
        name[CHOOSE k \in keep : Cardinality({m \in keep : m <= k}) = j]]

NonEmpty(sub) == sub # <<>>

\* C19: for one non-empty substring, remove_substrings returns the
\* characters, unchanged and in their order, that lie outside the
\* occurrences a left-to-right scan finds when it compares letters
\* whatever their case; empty substrings in the set change nothing: the
\* result is the one for the set without them, the name itself when the
\* set holds nothing else.
C19_SingleSubstringScan ==
    pc = "called" =>
        /\ (Len(to_remove) = 1 /\ to_remove[1] # <<>>) =>
            LET sub == to_remove[1]
                starts == ScanStarts(s_in, sub, 1)
                gone == {k + j - 1 : k \in starts, j \in 1..Len(sub)}
            IN /\ s_out = Kept(s_in, (1..Len(s_in)) \ gone)
               /\ Len(s_out) = Len(s_in) - Len(sub) * Cardinality(starts)
        /\ s_out = remove_substrings(s_in, SelectSeq(to_remove, NonEmpty))
        /\ SelectSeq(to_remove, NonEmpty) = <<>> => s_out = s_in

\* remove_substrings("AbA", {"ab"}) returned "A".
C19_Witness ==
    /\ pc = "called"
    /\ s_in = <<"A", "b", "A">>
    /\ to_remove = << <<"a", "b">> >>
    /\ s_out = <<"A">>

\* The kind of the entry an operation renames.
KindOf(k) == fs0[Resolve(fs0, operations[k].old_path)].kind

\* The name-conflict errors found after the j-th operation was planned.
ConflictsAfter(j) == {e \in ConflictErrors : error_ctx[e].planned >= j}

Excluded(n, exts) ==
    fs0[n].kind = "file" /\ ~should_process_file(fs0[n].name, exts)

\* The orders in which the two loops can take the entries of root_dir: the
\* files in any order, then the subdirectories in any order.
ListingOrders ==
    {ord \in [1..Cardinality(Entries) -> Entries] :
        /\ \A j, k \in 1..Cardinality(Entries) : ord[j] = ord[k] => j = k
        /\ \A j, k \in 1..Cardinality(Entries) :
            (j < k /\ fs0[ord[k]].kind = "file") => fs0[ord[j]].kind = "file"}

\* What the loops do with entry n, given the operations, the rejected
\* entries and the view so far, under the allow-list exts.
TakeEntry(plan, n, exts) ==
    LET name == fs0[n].name
        new_name == remove_substrings(name, to_remove)
    IN IF Excluded(n, exts) \/ new_name = name THEN plan
       ELSE IF \/ ~is_valid_filename(new_name)
               \/ NameConflict(new_name, name, plan.view)
       THEN [plan EXCEPT !.rejected = @ \cup {n}]
       ELSE [plan EXCEPT !.ops = Append(@, <<n, new_name>>),
                         !.view = UpdateExisting(@, name, new_name)]

RECURSIVE PlanFrom(_, _, _, _)
PlanFrom(plan, ord, k, exts) ==
    IF k > Len(ord) THEN plan
    ELSE PlanFrom(TakeEntry(plan, ord[k], exts), ord, k + 1, exts)

\* The plan of root_dir for a listing order and an allow-list.
PlanOf(ord, exts) ==
    PlanFrom([ops |-> <<>>, rejected |-> {}, view |-> listdir(fs0, <<>>)],
             ord, 1, exts)

\* The plan of the run, in the same form.
RunOps ==
    [k \in 1..Len(operations) |->
        <<Resolve(fs0, operations[k].old_path), operations[k].new_name>>]

RunRejected ==
    {n \in Entries :
        ErrorsAbout(n, InvalidMessages \cup {"Name conflict"}) # {}}

\* The listing orders that give the plan of the run.
RunOrders ==
    {ord \in ListingOrders :
        /\ PlanOf(ord, extensions).ops = RunOps
        /\ PlanOf(ord, extensions).rejected = RunRejected}

\* Whether entry n has an operation in the plan, and whether it is rejected.
Outcome(plan, n) ==
    <<\E k \in 1..Len(plan.ops) : plan.ops[k][1] = n, n \in plan.rejected>>

NoExcludedSource ==
    \A k \in 1..Len(operations) :
        ~Excluded(Resolve(fs0, operations[k].old_path), extensions)

\* C17 as stated: with an allow-list no excluded file is the source of an
\* operation, and every other file and every directory has, for the order
\* in which the entries were listed, the outcome it has without a filter.
C17_PlannedAsWithoutFilter ==
    (pc # "scan" /\ extensions # NoExtensions) =>
        /\ NoExcludedSource
        /\ \A ord \in RunOrders :
            \A n \in Entries :
                ~Excluded(n, extensions) =>
                    Outcome(PlanOf(ord, extensions), n)
                        = Outcome(PlanOf(ord, NoExtensions), n)

\* A listing order without the entries the allow-list of the run excludes.
Included(n) == ~Excluded(n, extensions)

\* C17 amended: no excluded file is the source of an operation or the
\* subject of a planning error; the plan is the one the loops give without
\* a filter for the other files and the directories alone, against the
\* names of the whole directory, so an excluded file keeps its name in the
\* view; every directory whose new name differs and is valid has an
\* operation or a name-conflict error.
C17_FilterSkipsFiles ==
    pc # "scan" =>
        /\ NoExcludedSource
        /\ \A n \in Entries :
            Excluded(n, extensions) => ~HasOperation(n) /\ n \notin RunRejected
        /\ RunOrders # {}
        /\ \A ord \in RunOrders :
            LET alone == PlanOf(SelectSeq(ord, Included), NoExtensions)
            IN /\ alone.ops = RunOps
               /\ alone.rejected = RunRejected
               /\ \A n \in Entries :
                    Excluded(n, extensions) => fs0[n].name \in alone.view
        /\ \A n \in Entries :
            (/\ fs0[n].kind = "dir"
             /\ NewNameOf(n) # fs0[n].name
             /\ is_valid_filename(NewNameOf(n)))
                => HasOperation(n) \/ ErrorsAbout(n, {"Name conflict"}) # {}

\* A plan under an allow-list with an operation on a file, while a file
\* the list excludes would have taken the same new name.
C17_Witness ==
    /\ pc = "planned"
    /\ extensions # NoExtensions
    /\ \E n, m \in Entries :
        /\ Excluded(n, extensions)
        /\ fs0[m].kind = "file"
        /\ HasOperation(m)
        /\ NewNameOf(n) = NewNameOf(m)

\* The name of the root directory holds a substring of the run.
RootNameMatches ==
    remove_substrings(os_path_basename(root_directory), to_remove)
        # os_path_basename(root_directory)

\* C21: the root directory is never the source of an operation: the source
\* and the destination of every operation are paths strictly below the
\* root, in the same parent directory, and differ in their final component
\* only; no two operations have the same source; so every os.rename call of
\* the executor loop has its source strictly below the root, and the root
\* path stays that of the root directory, also when the root's own name
\* holds a target substring.
C21_RootNeverSource ==
    /\ \A k \in 1..Len(operations) :
        LET old == FullPath(operations[k].old_path)
            new == FullPath(operations[k].new_path)
        IN /\ StrictlyInside(old, root_directory)
           /\ StrictlyInside(new, root_directory)
           /\ SameDirectory(old, new)
           /\ os_path_basename(old) # os_path_basename(new)
           /\ os_path_basename(old) = operations[k].old_name
           /\ os_path_basename(new) = operations[k].new_name
    /\ \A j, k \in 1..Len(operations) :
        operations[j].old_path = operations[k].old_path => j = k
    /\ \A k \in 1..Len(attempted) :
        StrictlyInside(FullPath(operations[attempted[k].index].old_path),
                       root_directory)
    /\ IsDirId(fs, Resolve(fs, <<>>))
    /\ Resolve(fs, <<>>) = Resolve(fs0, <<>>)

\* A finished run on a root whose name holds a target substring, in which
\* a directory directly below the root was renamed.
C21_Witness ==
    /\ result = "returned"
    /\ RootNameMatches
    /\ \E k \in 1..Len(attempted) :
        /\ attempted[k].ok
        /\ Len(operations[attempted[k].index].old_path) = 1
        /\ fs0[Resolve(fs0, operations[attempted[k].index].old_path)].kind
            = "dir"

====
